---------------------------- MODULE Spec2Model ----------------------------
(***************************************************************************)
(* TdarkChess (src/chess_play.py): two MainWindow processes, a host and a  *)
(* client, that play chess over one TCP connection.  Each process has a    *)
(* UI thread (mousePressEvent) and a reader thread (_socketReader); both   *)
(* call performMove on the process's chess.Board.                          *)
(*                                                                         *)
(* The rules engine is the python-chess library the program imports        *)
(* (chess.Board, chess.Move).  Its operations are modelled here on the     *)
(* real 8x8 board as the library computes them, with two restrictions      *)
(* that the click sets below keep out of reach: castling moves are not     *)
(* generated (castling rights are tracked, for the FEN), and a pawn        *)
(* promotes by token only.                                                 *)
(*                                                                         *)
(* Absent values (Python's None) are the empty sequence, a present value   *)
(* x is <<x>>.  Text is a sequence of one-character strings.               *)
(***************************************************************************)
EXTENDS Integers, Sequences, FiniteSets, TLC

None == <<>>
Some(x) == <<x>>

(***************************************************************************)
(* Squares, files and ranks: chess.SQUARES, chess.SQUARE_NAMES.            *)
(***************************************************************************)
Squares == 0..63
FILE_NAMES == <<"a", "b", "c", "d", "e", "f", "g", "h">>
RANK_NAMES == <<"1", "2", "3", "4", "5", "6", "7", "8">>
PIECE_SYMBOLS == <<"p", "n", "b", "r", "q", "k">>

square(file, rank) == rank * 8 + file
square_file(sq) == sq % 8
square_rank(sq) == sq \div 8

\* the two characters naming a square: chr(file + 97), str(rank + 1)
SquareName(sq) == <<FILE_NAMES[square_file(sq) + 1], RANK_NAMES[square_rank(sq) + 1]>>

IndexOf(seq, x) == CHOOSE i \in 1..Len(seq) : seq[i] = x
InSeq(seq, x) == \E i \in 1..Len(seq) : seq[i] = x

\* SQUARE_NAMES.index(text) succeeds
IsSquareName(text) ==
    /\ Len(text) = 2
    /\ InSeq(FILE_NAMES, text[1])
    /\ InSeq(RANK_NAMES, text[2])

ParseSquare(text) == square(IndexOf(FILE_NAMES, text[1]) - 1, IndexOf(RANK_NAMES, text[2]) - 1)

(***************************************************************************)
(* Pieces are python-chess symbols: upper case White, lower case Black;    *)
(* "." is an empty square.  WHITE is TRUE and BLACK is FALSE, as in the    *)
(* library.                                                                *)
(***************************************************************************)
WHITE == TRUE
BLACK == FALSE
Empty == "."
WhiteSymbols == {"P", "N", "B", "R", "Q", "K"}
BlackSymbols == {"p", "n", "b", "r", "q", "k"}

Upper(s) ==
    CASE s = "p" -> "P" [] s = "n" -> "N" [] s = "b" -> "B"
      [] s = "r" -> "R" [] s = "q" -> "Q" [] s = "k" -> "K" [] OTHER -> s

Lower(s) ==
    CASE s = "P" -> "p" [] s = "N" -> "n" [] s = "B" -> "b"
      [] s = "R" -> "r" [] s = "Q" -> "q" [] s = "K" -> "k" [] OTHER -> s

Symbol(ptype, color) == IF color = WHITE THEN Upper(ptype) ELSE ptype
IsColor(sym, color) == IF color = WHITE THEN sym \in WhiteSymbols ELSE sym \in BlackSymbols
ColorName(color) == IF color = WHITE THEN "White" ELSE "Black"

Abs(n) == IF n < 0 THEN -n ELSE n
Sign(n) == IF n < 0 THEN -1 ELSE IF n > 0 THEN 1 ELSE 0
Max(a, b) == IF a > b THEN a ELSE b


(***************************************************************************)
(* chess.Move and chess.Move.from_uci as called at lines 163, 167, 172 and *)
(* 197.  FromUciError is the exception the call raises, "" when it         *)
(* returns: TypeError for len(None), ValueError for a length other than 4  *)
(* or 5 and for a failed SQUARE_NAMES.index or PIECE_SYMBOLS.index.        *)
(***************************************************************************)
Move(from, to, promotion) ==
    [from_square |-> from, to_square |-> to, promotion |-> promotion]

NullToken == <<"0", "0", "0", "0">>

FromUciError(uci) ==
    IF uci = None THEN "TypeError"
    ELSE LET t == uci[1] IN
         IF t = NullToken THEN ""
         ELSE IF Len(t) \notin {4, 5} THEN "ValueError"
         ELSE IF ~IsSquareName(SubSeq(t, 1, 2)) \/ ~IsSquareName(SubSeq(t, 3, 4))
              THEN "ValueError"
         ELSE IF Len(t) = 5 /\ ~InSeq(PIECE_SYMBOLS, t[5]) THEN "ValueError"
         ELSE ""

\* the Move the call returns; uci is Some(text) and FromUciError(uci) = ""
FromUci(uci) ==
    LET t == uci[1] IN
    IF t = NullToken THEN Move(0, 0, None)
    ELSE Move(ParseSquare(SubSeq(t, 1, 2)), ParseSquare(SubSeq(t, 3, 4)),
              IF Len(t) = 5 THEN Some(t[5]) ELSE None)

\* Move.uci(), the inverse of from_uci
MoveUci(m) ==
    IF m = Move(0, 0, None) THEN NullToken
    ELSE SquareName(m.from_square) \o SquareName(m.to_square) \o m.promotion

(***************************************************************************)
(* Board geometry.  Between[a][b] is the set of squares strictly between   *)
(* two squares on a common rank, file or diagonal.                         *)
(***************************************************************************)
FileDist(a, b) == Abs(square_file(a) - square_file(b))
RankDist(a, b) == Abs(square_rank(a) - square_rank(b))

OnLine(a, b) ==
    /\ a # b
    /\ \/ square_file(a) = square_file(b)
       \/ square_rank(a) = square_rank(b)
OnDiagonal(a, b) == a # b /\ FileDist(a, b) = RankDist(a, b)

Between ==
    [a \in Squares |-> [b \in Squares |->
        IF OnLine(a, b) \/ OnDiagonal(a, b)
        THEN LET df == Sign(square_file(b) - square_file(a))
                 dr == Sign(square_rank(b) - square_rank(a))
                 n  == Max(FileDist(a, b), RankDist(a, b))
             IN {square(square_file(a) + i * df, square_rank(a) + i * dr) : i \in 1..(n - 1)}
        ELSE {}]]

\* a piece of symbol sym on from attacks to, on the placement pieces
Attacks(pieces, from, to) ==
    LET sym == pieces[from]
        clear == \A s \in Between[from][to] : pieces[s] = Empty
    IN CASE sym \in {"N", "n"} ->
              {FileDist(from, to), RankDist(from, to)} = {1, 2}
         [] sym \in {"K", "k"} ->
              from # to /\ Max(FileDist(from, to), RankDist(from, to)) = 1
         [] sym \in {"R", "r"} -> OnLine(from, to) /\ clear
         [] sym \in {"B", "b"} -> OnDiagonal(from, to) /\ clear
         [] sym \in {"Q", "q"} -> (OnLine(from, to) \/ OnDiagonal(from, to)) /\ clear
         [] sym = "P" ->
              FileDist(from, to) = 1 /\ square_rank(to) = square_rank(from) + 1
         [] sym = "p" ->
              FileDist(from, to) = 1 /\ square_rank(to) = square_rank(from) - 1
         [] OTHER -> FALSE

\* Board.is_attacked_by(color, square) on a placement
IsAttackedBy(pieces, color, sq) ==
    \E s \in Squares : IsColor(pieces[s], color) /\ Attacks(pieces, s, sq)

\* Board.king(color): the square of the king, None without one
KingOf(pieces, color) ==
    LET ks == {s \in Squares : pieces[s] = Symbol("k", color)}
    IN IF ks = {} THEN None ELSE Some(CHOOSE s \in ks : TRUE)

(***************************************************************************)
(* chess.Board: the placement, the side to move, the castling rights (the  *)
(* squares of the rooks that may castle), the en passant square, the two   *)
(* clocks and the chess960 flag.                                           *)
(***************************************************************************)
LastRank(color) == IF color = WHITE THEN 7 ELSE 0
PawnRank(color) == IF color = WHITE THEN 1 ELSE 6
Forward(color) == IF color = WHITE THEN 8 ELSE -8
BackRank(color) == {s \in Squares : square_rank(s) = (IF color = WHITE THEN 0 ELSE 7)}

IsPawn(sym) == sym \in {"P", "p"}

\* the pawn moves generate_pseudo_legal_moves yields: captures (en passant
\* included), single and double steps; a move to the last rank carries a
\* promotion to queen, rook, bishop or knight and no other move carries one
PawnMove(b, m) ==
    LET from == m.from_square
        to == m.to_square
        fwd == Forward(b.turn)
    IN /\ \/ /\ Attacks(b.pieces, from, to)
             /\ \/ IsColor(b.pieces[to], ~b.turn)
                \/ b.ep_square = Some(to) /\ b.pieces[to] = Empty
          \/ to = from + fwd /\ b.pieces[to] = Empty
          \/ /\ to = from + 2 * fwd
             /\ square_rank(from) = PawnRank(b.turn)
             /\ b.pieces[from + fwd] = Empty
             /\ b.pieces[to] = Empty
       /\ IF square_rank(to) = LastRank(b.turn)
          THEN m.promotion \in {Some("q"), Some("r"), Some("b"), Some("n")}
          ELSE m.promotion = None

\* Board.is_pseudo_legal(move)
IsPseudoLegal(b, m) ==
    /\ m.from_square # m.to_square
    /\ IsColor(b.pieces[m.from_square], b.turn)
    /\ m.promotion # None =>
          /\ IsPawn(b.pieces[m.from_square])
          /\ square_rank(m.to_square) = LastRank(b.turn)
    /\ ~IsColor(b.pieces[m.to_square], b.turn)
    /\ IF IsPawn(b.pieces[m.from_square])
       THEN PawnMove(b, m)
       ELSE Attacks(b.pieces, m.from_square, m.to_square)

IsEnPassant(b, m) ==
    /\ IsPawn(b.pieces[m.from_square])
    /\ b.ep_square = Some(m.to_square)
    /\ square_file(m.from_square) # square_file(m.to_square)
    /\ b.pieces[m.to_square] = Empty

\* the placement after the move
MovePieces(b, m) ==
    LET ep == IsEnPassant(b, m)
        taken == square(square_file(m.to_square), square_rank(m.from_square))
    IN [s \in Squares |->
          IF s = m.from_square THEN Empty
          ELSE IF s = m.to_square
               THEN IF m.promotion # None
                    THEN Symbol(m.promotion[1], b.turn)
                    ELSE b.pieces[m.from_square]
          ELSE IF ep /\ s = taken THEN Empty
          ELSE b.pieces[s]]

\* Board.is_into_check(move): the mover's king is attacked after the move
IsIntoCheck(b, m) ==
    LET np == MovePieces(b, m)
        k == KingOf(np, b.turn)
    IN k # None /\ IsAttackedBy(np, ~b.turn, k[1])

\* Board.is_legal(move), lines 164 and 168
IsLegal(b, m) == IsPseudoLegal(b, m) /\ ~IsIntoCheck(b, m)

\* Board.is_check(), line 146
IsCheck(b) ==
    LET k == KingOf(b.pieces, b.turn)
    IN k # None /\ IsAttackedBy(b.pieces, ~b.turn, k[1])

\* Board.is_checkmate(), line 151: in check and without a legal move
IsCheckmate(b) ==
    /\ IsCheck(b)
    /\ \A from \in {s \in Squares : IsColor(b.pieces[s], b.turn)} :
         \A to \in Squares :
            /\ ~IsLegal(b, Move(from, to, None))
            /\ ~IsLegal(b, Move(from, to, Some("q")))

MinOf(S) == CHOOSE x \in S : \A y \in S : x <= y
MaxOf(S) == CHOOSE x \in S : \A y \in S : y <= x

\* Board.clean_castling_rights(): the rights that rooks on the back rank
\* still carry; outside Chess960 only for a king on e1/e8 and rooks on the
\* a- and h-file, in Chess960 for one rook on each side of the king
CleanSide(b, color) ==
    LET rooks == {s \in b.castling_rights \cap BackRank(color) :
                     b.pieces[s] = Symbol("r", color)}
        k == KingOf(b.pieces, color)
    IN IF rooks = {} \/ k = None THEN {}
       ELSE IF ~b.chess960
       THEN IF square_file(k[1]) = 4 /\ k[1] \in BackRank(color)
            THEN {s \in rooks : square_file(s) \in {0, 7}}
            ELSE {}
       ELSE IF k[1] \notin BackRank(color) THEN {}
       ELSE {s \in {MinOf(rooks)} : s < k[1]} \cup {s \in {MaxOf(rooks)} : s > k[1]}

CleanCastlingRights(b) == CleanSide(b, WHITE) \cup CleanSide(b, BLACK)

\* Board.push(move), line 144
Push(b, m) ==
    LET sym == b.pieces[m.from_square]
        zeroing == IsPawn(sym) \/ b.pieces[m.to_square] # Empty
        kept == CleanCastlingRights(b) \ {m.from_square, m.to_square}
    IN [pieces |-> MovePieces(b, m),
        turn |-> ~b.turn,
        castling_rights |->
            IF sym = Symbol("k", b.turn) THEN kept \ BackRank(b.turn) ELSE kept,
        ep_square |->
            IF IsPawn(sym) /\ m.to_square = m.from_square + 2 * Forward(b.turn)
            THEN Some(m.from_square + Forward(b.turn))
            ELSE None,
        halfmove_clock |-> IF zeroing THEN 0 ELSE b.halfmove_clock + 1,
        fullmove_number |-> IF b.turn = BLACK THEN b.fullmove_number + 1
                            ELSE b.fullmove_number,
        chess960 |-> b.chess960]

(***************************************************************************)
(* Starting positions: chess.Board() (line 71) and                         *)
(* chess.Board.from_chess960_pos(n) (line 69), which places the back rank  *)
(* by Scharnagl's numbering: the two bishops, the queen, the two knights,  *)
(* then rook, king, rook on the files left.                                *)
(***************************************************************************)
StartBoard(backrank, is960) ==
    [pieces |-> [s \in Squares |->
                    CASE square_rank(s) = 0 -> Upper(backrank[square_file(s) + 1])
                      [] square_rank(s) = 1 -> "P"
                      [] square_rank(s) = 6 -> "p"
                      [] square_rank(s) = 7 -> backrank[square_file(s) + 1]
                      [] OTHER -> Empty],
     turn |-> WHITE,
     castling_rights |-> {s \in BackRank(WHITE) \cup BackRank(BLACK) :
                             backrank[square_file(s) + 1] = "r"},
     ep_square |-> None,
     halfmove_clock |-> 0,
     fullmove_number |-> 1,
     chess960 |-> is960]

StandardBoard == StartBoard(<<"r", "n", "b", "q", "k", "b", "n", "r">>, FALSE)

\* the files in S in ascending order
RECURSIVE Ascending(_)
Ascending(S) == IF S = {} THEN <<>> ELSE <<MinOf(S)>> \o Ascending(S \ {MinOf(S)})

Chess960BackRank(sharnagl) ==
    LET bw == sharnagl % 4
        nb == sharnagl \div 4
        bb == nb % 4
        nq == nb \div 4
        q  == nq % 6
        n  == nq \div 6
        bw_file == bw * 2 + 1
        bb_file == bb * 2
        q1 == IF (IF bw_file < bb_file THEN bw_file ELSE bb_file) <= q THEN q + 1 ELSE q
        q_file == IF Max(bw_file, bb_file) <= q1 THEN q1 + 1 ELSE q1
        second(n1) == n + ((3 - n1) * (4 - n1)) \div 2 - 5
        fits(n1) == n1 < second(n1) /\ second(n1) >= 1 /\ second(n1) <= 4
        n1 == MinOf({i \in 0..3 : fits(i)})
        n2 == second(n1)
        free == Ascending((0..7) \ {bw_file, bb_file, q_file})
        rest == Ascending((0..7) \ {bw_file, bb_file, q_file, free[n1 + 1], free[n2 + 1]})
    IN [i \in 1..8 |->
          CASE i - 1 \in {bw_file, bb_file} -> "b"
            [] i - 1 = q_file -> "q"
            [] i - 1 \in {free[n1 + 1], free[n2 + 1]} -> "n"
            [] i - 1 = rest[2] -> "k"
            [] OTHER -> "r"]

Chess960Board(sharnagl) == StartBoard(Chess960BackRank(sharnagl), TRUE)

(***************************************************************************)
(* FEN.  Board.fen(shredder=False) (line 114) writes six fields; the       *)
(* Board constructor (line 124) reads them back under the reader's own     *)
(* chess960 flag.  The placement is written rank 8 first; the castling     *)
(* field is X-FEN, written from the cleaned castling rights.               *)
(***************************************************************************)
RECURSIVE Descending(_)
Descending(S) == IF S = {} THEN <<>> ELSE <<MaxOf(S)>> \o Descending(S \ {MaxOf(S)})

\* Board.castling_xfen(): K/Q (k/q) for the outermost rook on its side of
\* the king, the rook's file letter otherwise
CastlingLetter(b, color, rook) ==
    LET k == KingOf(b.pieces, color)[1]
        a_side == square_file(rook) < square_file(k)
        others == {s \in BackRank(color) : b.pieces[s] = Symbol("r", color) /\ s # rook}
        outer == \E o \in others : (square_file(o) < square_file(rook)) = a_side
        ch == IF outer THEN FILE_NAMES[square_file(rook) + 1]
              ELSE IF a_side THEN "q" ELSE "k"
    IN IF color = WHITE THEN Upper(ch) ELSE ch

CastlingXfen(b) ==
    LET side(color) ==
            LET rooks == Descending(CleanSide(b, color))
            IN [i \in 1..Len(rooks) |-> CastlingLetter(b, color, rooks[i])]
        text == side(WHITE) \o side(BLACK)
    IN IF text = <<>> THEN <<"-">> ELSE text

\* Board.has_legal_en_passant()
HasLegalEnPassant(b) ==
    /\ b.ep_square # None
    /\ \E from \in Squares : IsLegal(b, Move(from, b.ep_square[1], None))

Fen(b) ==
    [placement |-> [r \in 1..8 |-> [f \in 1..8 |-> b.pieces[square(f - 1, 8 - r)]]],
     turn |-> IF b.turn = WHITE THEN "w" ELSE "b",
     castling |-> CastlingXfen(b),
     ep |-> IF HasLegalEnPassant(b) THEN SquareName(b.ep_square[1]) ELSE <<"-">>,
     halfmove |-> b.halfmove_clock,
     fullmove |-> b.fullmove_number]

\* Board.set_castling_fen(): the rook each flag names on the placement
CastlingRook(pieces, flag) ==
    LET color == IF Lower(flag) # flag THEN WHITE ELSE BLACK
        low == Lower(flag)
        rooks == {s \in BackRank(color) : pieces[s] = Symbol("r", color)}
        k == KingOf(pieces, color)
        corner(file) == {s \in BackRank(color) : square_file(s) = file}
    IN IF low = "q"
       THEN IF k # None /\ rooks # {} /\ MinOf(rooks) < k[1] THEN {MinOf(rooks)} ELSE corner(0)
       ELSE IF low = "k"
       THEN IF k # None /\ rooks # {} /\ k[1] < MaxOf(rooks) THEN {MaxOf(rooks)} ELSE corner(7)
       ELSE corner(IndexOf(FILE_NAMES, low) - 1)

\* chess.Board(fen=fen, chess960=is960), line 124
SetFen(fen, is960) ==
    LET pieces == [s \in Squares |-> fen.placement[8 - square_rank(s)][square_file(s) + 1]]
    IN [pieces |-> pieces,
        turn |-> (fen.turn = "w"),
        castling_rights |->
            IF fen.castling = <<"-">> THEN {}
            ELSE UNION {CastlingRook(pieces, fen.castling[i]) : i \in 1..Len(fen.castling)},
        ep_square |-> IF fen.ep = <<"-">> THEN None ELSE Some(ParseSquare(fen.ep)),
        halfmove_clock |-> fen.halfmove,
        fullmove_number |-> fen.fullmove,
        chess960 |-> is960]

(***************************************************************************)
(* Bounds of the model.  A session plays at most MaxPlies moves.  The      *)
(* users click only squares of the session's click set, one of ClickSets:  *)
(* the squares of Fool's Mate, and the squares on which a White pawn walks *)
(* from h2 to g8 while Black answers with a pawn and a knight.  A host     *)
(* started with --c960 draws its position from Chess960Sample.             *)
(***************************************************************************)
MaxPlies == 9

Sq(name) == ParseSquare(name)

FoolsMateSquares ==
    {Sq(<<"f", "2">>), Sq(<<"f", "3">>), Sq(<<"g", "2">>), Sq(<<"g", "4">>),
     Sq(<<"e", "7">>), Sq(<<"e", "5">>), Sq(<<"d", "8">>), Sq(<<"h", "4">>)}

PromotionSquares ==
    {Sq(<<"h", "2">>), Sq(<<"h", "4">>), Sq(<<"g", "5">>), Sq(<<"g", "6">>),
     Sq(<<"h", "7">>), Sq(<<"g", "8">>), Sq(<<"g", "7">>), Sq(<<"b", "8">>),
     Sq(<<"c", "6">>)}

ClickSets == {FoolsMateSquares, PromotionSquares}

Chess960Sample == {0}

(***************************************************************************)
(* The state: the fields of the two MainWindow objects, the position of    *)
(* each process's UI thread and reader thread, and the connection.         *)
(***************************************************************************)
Peers == {"host", "client"}
Other(p) == IF p = "host" THEN "client" ELSE "host"

VARIABLES
    is960,          \* self.is960
    chessboard,     \* self.chessboard
    pieceToMove,    \* self.pieceToMove: [piece, coordinates]
    flipped,        \* self.flipped
    isMyMove,       \* self.isMyMove
    lastMove,       \* self.lastMove
    check,          \* self.check
    lastReceived,   \* self.lastReceived
    prevReceived,   \* history: self.lastReceived before the last recv()
    popup,          \* self.popup: the text of the checkmate label
    uiPc,           \* where the UI thread is
    uci,            \* mousePressEvent's local uci
    rdPc,           \* where the reader thread is
    connected,      \* the client's connect() has completed
    sock,           \* sock[p]: the bytes sent to p and not yet received
    closed,         \* closed[p]: p's process has exited and closed its socket
    clickable,      \* the squares the users click in this session
    applied,        \* history: the tokens performMove has applied at each peer
    wire            \* history: every send, in order

vars == <<is960, chessboard, pieceToMove, flipped, isMyMove, lastMove, check,
          lastReceived, prevReceived, popup, uiPc, uci, rdPc, connected,
          sock, closed, clickable, applied, wire>>

NoBytes == [fen |-> None, bytes |-> <<>>]

\* the text recv() returns for the buffered bytes; the text of a FEN is
\* one element that is no move-token character
Text(data) == (IF data.fen = None THEN <<>> ELSE <<"FEN">>) \o data.bytes

(***************************************************************************)
(* MainWindow.__init__, lines 61-82, up to the call of connectNetwork:     *)
(* the host blocks in accept(), the client is about to connect().          *)
(***************************************************************************)
NewBoard(c960) ==
    IF c960 THEN {Chess960Board(n) : n \in Chess960Sample} ELSE {StandardBoard}

Init ==
    /\ is960 \in [Peers -> BOOLEAN]
    /\ chessboard \in {cb \in [Peers -> NewBoard(TRUE) \cup NewBoard(FALSE)] :
                          \A p \in Peers : cb[p] \in NewBoard(is960[p])}
    /\ pieceToMove = [p \in Peers |-> [piece |-> None, coordinates |-> None]]
    /\ flipped = [p \in Peers |-> p = "client"]
    /\ isMyMove = [p \in Peers |-> p = "host"]
    /\ lastMove = [p \in Peers |-> None]
    /\ check = [p \in Peers |-> None]
    /\ lastReceived = [p \in Peers |-> None]
    /\ prevReceived = [p \in Peers |-> None]
    /\ popup = [p \in Peers |-> None]
    /\ uiPc = [p \in Peers |-> IF p = "host" THEN "accept" ELSE "connect"]
    /\ uci = [p \in Peers |-> None]
    /\ rdPc = [p \in Peers |-> "off"]
    /\ connected = FALSE
    /\ sock = [p \in Peers |-> NoBytes]
    /\ closed = [p \in Peers |-> FALSE]
    /\ clickable \in ClickSets
    /\ applied = [p \in Peers |-> <<>>]
    /\ wire = <<>>

(***************************************************************************)
(* connectNetwork, lines 107-127.                                          *)
(***************************************************************************)
\* socket.send(text): the bytes join those already buffered at the peer
Send(buffer, data) ==
    [fen |-> IF buffer = NoBytes THEN data.fen ELSE buffer.fen,
     bytes |-> buffer.bytes \o data.bytes]

\* client, line 121
ClientConnect ==
    /\ uiPc["client"] = "connect"
    /\ connected' = TRUE
    /\ uiPc' = [uiPc EXCEPT !["client"] = "recv"]
    /\ UNCHANGED <<is960, chessboard, pieceToMove, flipped, isMyMove, lastMove,
                   check, lastReceived, prevReceived, popup, uci, rdPc, sock, closed, clickable, applied, wire>>

\* variant: lines 114-116 left out, the host sends no FEN
HostAcceptSilent ==
    /\ uiPc["host"] = "accept"
    /\ connected
    /\ rdPc' = [rdPc EXCEPT !["host"] = "recv"]
    /\ uiPc' = [uiPc EXCEPT !["host"] = "idle"]
    /\ UNCHANGED <<is960, chessboard, pieceToMove, flipped, isMyMove, lastMove, check,
                   lastReceived, prevReceived, popup, uci, connected, sock, closed, clickable, applied, wire>>

\* host, lines 113-117 and 126-127: accept, send the FEN, start the reader
HostAccept ==
    /\ uiPc["host"] = "accept"
    /\ connected
    /\ LET msg == [fen |-> Some(Fen(chessboard["host"])), bytes |-> <<>>]
       IN /\ sock' = [sock EXCEPT !["client"] = Send(@, msg)]
          /\ wire' = Append(wire, [sender |-> "host", data |-> msg])
    /\ rdPc' = [rdPc EXCEPT !["host"] = "recv"]
    /\ uiPc' = [uiPc EXCEPT !["host"] = "idle"]
    /\ UNCHANGED <<is960, chessboard, pieceToMove, flipped, isMyMove, lastMove,
                   check, lastReceived, prevReceived, popup, uci, connected, closed, clickable, applied>>

\* chess.Board(fen=fen, ...) raises ValueError unless the text is one FEN
FenParses(data) == data.fen # None /\ data.bytes = <<>>

\* client, lines 122-127: one recv(1024) takes all the buffered bytes; the
\* Board is built from them and the reader started, or the constructor
\* raises and the process exits
ClientRecvFen ==
    /\ uiPc["client"] = "recv"
    /\ sock["client"] # NoBytes
    /\ sock' = [sock EXCEPT !["client"] = NoBytes]
    /\ IF FenParses(sock["client"])
       THEN /\ chessboard' = [chessboard EXCEPT
                  !["client"] = SetFen(sock["client"].fen[1], is960["client"])]
            /\ rdPc' = [rdPc EXCEPT !["client"] = "recv"]
            /\ uiPc' = [uiPc EXCEPT !["client"] = "idle"]
            /\ UNCHANGED closed
       ELSE /\ uiPc' = [uiPc EXCEPT !["client"] = "crashed"]
            /\ closed' = [closed EXCEPT !["client"] = TRUE]
            /\ UNCHANGED <<chessboard, rdPc>>
    /\ UNCHANGED <<is960, pieceToMove, flipped, isMyMove, lastMove, check,
                   lastReceived, prevReceived, popup, uci, connected,
                   clickable, applied, wire>>

(***************************************************************************)
(* performMove, lines 142-173, as a function of the fields it reads.  The  *)
(* result holds the exception raised ("" when the call returns), the value *)
(* returned, and the fields as the call leaves them.                       *)
(***************************************************************************)
\* variant: the label names the side to move
CheckmateTextSwapped(b) ==
    IF b.turn = WHITE THEN "Checkmate! White wins!" ELSE "Checkmate! Black wins!"

\* lines 152-155: chessboard.turn is the side that has been mated
CheckmateText(b) ==
    IF b.turn = WHITE THEN "Checkmate! Black wins!" ELSE "Checkmate! White wins!"

\* variant: line 147 takes the king of the side that has moved
UpdateMoveOnboardMoverKing(b, pop, move) ==
    LET nb == Push(b, move)
    IN [raised |-> "",
        returned |-> TRUE,
        chessboard |-> nb,
        lastMove |-> Some(move),
        check |-> IF IsCheck(nb) THEN KingOf(nb.pieces, ~nb.turn) ELSE None,
        popup |-> IF IsCheckmate(nb) THEN Some(CheckmateText(nb)) ELSE pop]

\* _updateMoveOnboard(move), lines 143-161
UpdateMoveOnboard(b, pop, move) ==
    LET nb == Push(b, move)
    IN [raised |-> "",
        returned |-> TRUE,
        chessboard |-> nb,
        lastMove |-> Some(move),
        check |-> IF IsCheck(nb) THEN KingOf(nb.pieces, nb.turn) ELSE None,
        popup |-> IF IsCheckmate(nb) THEN Some(CheckmateText(nb)) ELSE pop]

\* the call ends without touching a field: it raises, or returns False
Untouched(b, lm, ck, pop, exception) ==
    [raised |-> exception, returned |-> FALSE, chessboard |-> b,
     lastMove |-> lm, check |-> ck, popup |-> pop]

\* variant: the retry appends a rook promotion
RookSuffix == "r"

\* line 167: uci + 'q'
QueenSuffix == "q"

PerformMove(b, lm, ck, pop, received, token) ==
    IF FromUciError(Some(token)) # ""                                \* line 163
    THEN Untouched(b, lm, ck, pop, FromUciError(Some(token)))
    ELSE IF IsLegal(b, FromUci(Some(token)))                         \* line 164
    THEN UpdateMoveOnboard(b, pop, FromUci(Some(token)))
    ELSE LET queen == Some(Append(token, QueenSuffix))                       \* line 167
         IN IF FromUciError(queen) # ""
            THEN Untouched(b, lm, ck, pop, FromUciError(queen))
            ELSE IF IsLegal(b, FromUci(queen))                       \* line 168
            THEN UpdateMoveOnboard(b, pop, FromUci(queen))
            ELSE IF FromUciError(received) # ""                      \* line 172
            THEN Untouched(b, lm, ck, pop, FromUciError(received))
            ELSE Untouched(b, Some(FromUci(received)), ck, pop, "")

\* performMove on the fields of peer p
Perform(p, token) ==
    PerformMove(chessboard[p], lastMove[p], check[p], popup[p], lastReceived[p], token)

(***************************************************************************)
(* mousePressEvent, lines 176-203, for a left click on a square of the     *)
(* board.  The handler runs on the UI thread; it is split where it reads   *)
(* or writes what the reader thread shares: the test of isMyMove and the   *)
(* first click (178-187, 197-198), performMove (189), isMyMove = False     *)
(* (190), send (191), and the reset of the selection (194-198).            *)
(***************************************************************************)
\* Board.piece_at(square), line 184
PieceAt(b, sq) == IF b.pieces[sq] = Empty THEN None ELSE Some(b.pieces[sq])

\* line 178 fails: the event goes to QWidget.mousePressEvent, line 203
UiClickIgnored(p) ==
    /\ uiPc[p] = "idle"
    /\ ~isMyMove[p]
    /\ UNCHANGED vars

\* the first click of a move, lines 182-186 and 197-199
UiSelect(p, sq) ==
    /\ uiPc[p] = "idle"
    /\ isMyMove[p]
    /\ pieceToMove[p].piece = None
    /\ Len(applied[p]) < MaxPlies
    /\ lastMove' = [lastMove EXCEPT ![p] = Some(FromUci(Some(SquareName(sq) \o SquareName(sq))))]
    /\ pieceToMove' = [pieceToMove EXCEPT
          ![p] = [piece |-> PieceAt(chessboard[p], sq), coordinates |-> Some(SquareName(sq))]]
    /\ UNCHANGED <<is960, chessboard, flipped, isMyMove, check, lastReceived, prevReceived,
                   popup, uiPc, uci, rdPc, connected, sock, closed,
                   clickable, applied, wire>>

\* variant: line 190 moved before the call at line 189
UiClickMoveReleasing(p, sq) ==
    /\ uiPc[p] = "idle"
    /\ isMyMove[p]
    /\ pieceToMove[p].piece # None
    /\ isMyMove' = [isMyMove EXCEPT ![p] = FALSE]
    /\ uci' = [uci EXCEPT ![p] = Some(pieceToMove[p].coordinates[1] \o SquareName(sq))]
    /\ uiPc' = [uiPc EXCEPT ![p] = "perform"]
    /\ UNCHANGED <<is960, chessboard, pieceToMove, flipped, lastMove,
                   check, lastReceived, prevReceived, popup, rdPc, connected, sock,
                   closed, clickable, applied, wire>>

\* the second click, lines 182-188: the token is built and performMove is
\* about to be called
UiClickMove(p, sq) ==
    /\ uiPc[p] = "idle"
    /\ isMyMove[p]
    /\ pieceToMove[p].piece # None
    /\ uci' = [uci EXCEPT ![p] = Some(pieceToMove[p].coordinates[1] \o SquareName(sq))]
    /\ uiPc' = [uiPc EXCEPT ![p] = "perform"]
    /\ UNCHANGED <<is960, chessboard, pieceToMove, flipped, isMyMove, lastMove,
                   check, lastReceived, prevReceived, popup, rdPc, connected, sock,
                   closed, clickable, applied, wire>>

\* line 189: performMove(uci).  An exception ends the handler there.  When
\* the call returns False the handler goes on to lines 194-199, which
\* clear the selection.
UiPerform(p) ==
    /\ uiPc[p] = "perform"
    /\ \E r \in {Perform(p, uci[p][1])} :
          /\ chessboard' = [chessboard EXCEPT ![p] = r.chessboard]
          /\ lastMove' = [lastMove EXCEPT ![p] = r.lastMove]
          /\ check' = [check EXCEPT ![p] = r.check]
          /\ popup' = [popup EXCEPT ![p] = r.popup]
          /\ applied' = [applied EXCEPT
                ![p] = IF r.returned THEN Append(@, uci[p][1]) ELSE @]
          /\ uiPc' = [uiPc EXCEPT ![p] = IF r.returned THEN "flag" ELSE "idle"]
          /\ uci' = [uci EXCEPT ![p] = IF r.returned THEN @ ELSE None]
          /\ pieceToMove' = [pieceToMove EXCEPT
                ![p] = IF r.raised = "" /\ ~r.returned
                       THEN [piece |-> None, coordinates |-> None] ELSE @]
    /\ UNCHANGED <<is960, flipped, isMyMove, lastReceived, prevReceived, rdPc, connected, sock, closed, clickable, wire>>

\* variant: line 190 left out
UiFlagKept(p) ==
    /\ uiPc[p] = "flag"
    /\ uiPc' = [uiPc EXCEPT ![p] = "send"]
    /\ UNCHANGED <<is960, chessboard, pieceToMove, flipped, isMyMove, lastMove, check,
                   lastReceived, prevReceived, popup, uci, rdPc, connected, sock, closed, clickable, applied, wire>>

\* line 190
UiFlag(p) ==
    /\ uiPc[p] = "flag"
    /\ isMyMove' = [isMyMove EXCEPT ![p] = FALSE]
    /\ uiPc' = [uiPc EXCEPT ![p] = "send"]
    /\ UNCHANGED <<is960, chessboard, pieceToMove, flipped, lastMove, check,
                   lastReceived, prevReceived, popup, uci, rdPc, connected, sock, closed, clickable, applied, wire>>

\* variant: line 191 left out
UiSendDropped(p) ==
    /\ uiPc[p] = "send"
    /\ uiPc' = [uiPc EXCEPT ![p] = "finish"]
    /\ UNCHANGED <<is960, chessboard, pieceToMove, flipped, isMyMove, lastMove, check,
                   lastReceived, prevReceived, popup, uci, rdPc, connected, sock,
                   closed, clickable, applied, wire>>

\* line 191
UiSend(p) ==
    /\ uiPc[p] = "send"
    /\ LET msg == [fen |-> None, bytes |-> uci[p][1]]
       IN /\ sock' = [sock EXCEPT ![Other(p)] = Send(@, msg)]
          /\ wire' = Append(wire, [sender |-> p, data |-> msg])
    /\ uiPc' = [uiPc EXCEPT ![p] = "finish"]
    /\ UNCHANGED <<is960, chessboard, pieceToMove, flipped, isMyMove, lastMove,
                   check, lastReceived, prevReceived, popup, uci, rdPc, connected, closed, clickable, applied>>

\* variant: the handler takes the turn back when it ends
UiFinishRetaking(p) ==
    /\ uiPc[p] = "finish"
    /\ pieceToMove' = [pieceToMove EXCEPT ![p] = [piece |-> None, coordinates |-> None]]
    /\ uci' = [uci EXCEPT ![p] = None]
    /\ uiPc' = [uiPc EXCEPT ![p] = "idle"]
    /\ isMyMove' = [isMyMove EXCEPT ![p] = TRUE]
    /\ UNCHANGED <<is960, chessboard, flipped, lastMove, check,
                   lastReceived, prevReceived, popup, rdPc, connected,
                   sock, closed, clickable, applied, wire>>

\* lines 192-199, after a move that was sent
UiFinish(p) ==
    /\ uiPc[p] = "finish"
    /\ pieceToMove' = [pieceToMove EXCEPT ![p] = [piece |-> None, coordinates |-> None]]
    /\ uci' = [uci EXCEPT ![p] = None]
    /\ uiPc' = [uiPc EXCEPT ![p] = "idle"]
    /\ UNCHANGED <<is960, chessboard, flipped, isMyMove, lastMove, check,
                   lastReceived, prevReceived, popup, rdPc, connected,
                   sock, closed, clickable, applied, wire>>

(***************************************************************************)
(* _socketReader, lines 98-105, on the reader thread: recv (100), the test *)
(* of isMyMove (102), performMove (103) and isMyMove = True (104).  An     *)
(* exception in performMove ends the thread.  recv returns all the bytes   *)
(* buffered, and the empty text once the peer has closed the connection.   *)
(***************************************************************************)
RdRecv(p) ==
    /\ rdPc[p] = "recv"
    /\ sock[p] # NoBytes \/ closed[Other(p)]
    /\ lastReceived' = [lastReceived EXCEPT ![p] = Some(Text(sock[p]))]
    /\ prevReceived' = [prevReceived EXCEPT ![p] = lastReceived[p]]
    /\ sock' = [sock EXCEPT ![p] = NoBytes]
    /\ rdPc' = [rdPc EXCEPT ![p] = "check"]
    /\ UNCHANGED <<is960, chessboard, pieceToMove, flipped, isMyMove, lastMove,
                   check, popup, uiPc, uci, connected, closed,
                   clickable, applied, wire>>

\* variant: line 102 left out
RdCheckAlways(p) ==
    /\ rdPc[p] = "check"
    /\ rdPc' = [rdPc EXCEPT ![p] = "perform"]
    /\ UNCHANGED <<is960, chessboard, pieceToMove, flipped, isMyMove, lastMove,
                   check, lastReceived, prevReceived, popup, uiPc, uci, connected,
                   sock, closed, clickable, applied, wire>>

\* line 102
RdCheck(p) ==
    /\ rdPc[p] = "check"
    /\ rdPc' = [rdPc EXCEPT ![p] = IF isMyMove[p] THEN "recv" ELSE "perform"]
    /\ UNCHANGED <<is960, chessboard, pieceToMove, flipped, isMyMove, lastMove,
                   check, lastReceived, prevReceived, popup, uiPc, uci, connected,
                   sock, closed, clickable, applied, wire>>

RdPerform(p) ==
    /\ rdPc[p] = "perform"
    /\ \E r \in {Perform(p, lastReceived[p][1])} :
          /\ chessboard' = [chessboard EXCEPT ![p] = r.chessboard]
          /\ lastMove' = [lastMove EXCEPT ![p] = r.lastMove]
          /\ check' = [check EXCEPT ![p] = r.check]
          /\ popup' = [popup EXCEPT ![p] = r.popup]
          /\ applied' = [applied EXCEPT
                ![p] = IF r.returned THEN Append(@, lastReceived[p][1]) ELSE @]
          /\ rdPc' = [rdPc EXCEPT
                ![p] = IF r.raised # "" THEN "dead"
                       ELSE IF r.returned THEN "flag" ELSE "recv"]
    /\ UNCHANGED <<is960, pieceToMove, flipped, isMyMove, lastReceived, prevReceived, uiPc,
                   uci, connected, sock, closed, clickable, wire>>

\* variant: line 104 left out
RdFlagKept(p) ==
    /\ rdPc[p] = "flag"
    /\ rdPc' = [rdPc EXCEPT ![p] = "recv"]
    /\ UNCHANGED <<is960, chessboard, pieceToMove, flipped, isMyMove, lastMove, check,
                   lastReceived, prevReceived, popup, uiPc, uci, connected, sock, closed, clickable, applied, wire>>

\* line 104
RdFlag(p) ==
    /\ rdPc[p] = "flag"
    /\ isMyMove' = [isMyMove EXCEPT ![p] = TRUE]
    /\ rdPc' = [rdPc EXCEPT ![p] = "recv"]
    /\ UNCHANGED <<is960, chessboard, pieceToMove, flipped, lastMove, check,
                   lastReceived, prevReceived, popup, uiPc, uci, connected, sock, closed, clickable, applied, wire>>

Next ==
    \/ ClientConnect
    \/ HostAccept
    \/ ClientRecvFen
    \/ \E p \in Peers : UiClickIgnored(p)
    \/ \E p \in Peers : \E sq \in clickable : UiSelect(p, sq)
    \/ \E p \in Peers : \E sq \in clickable : UiClickMove(p, sq)
    \/ \E p \in Peers : UiPerform(p)
    \/ \E p \in Peers : UiFlag(p)
    \/ \E p \in Peers : UiSend(p)
    \/ \E p \in Peers : UiFinish(p)
    \/ \E p \in Peers : RdRecv(p)
    \/ \E p \in Peers : RdCheck(p)
    \/ \E p \in Peers : RdPerform(p)
    \/ \E p \in Peers : RdFlag(p)

Spec == Init /\ [][Next]_vars

(***************************************************************************)
(* The open session.  Nothing in connectNetwork checks who the peer is:    *)
(* the host accepts whoever connects and the client reads whatever the     *)
(* server sends.  In SpecOpen one peer runs the program and the other end  *)
(* of the connection is a foreign endpoint (uiPc = "foreign") that sends   *)
(* any of ForeignData at any time and reads what it is sent.               *)
(***************************************************************************)
Token(a, b, c, d) == <<a, b, c, d>>

\* what a foreign endpoint in the place of q sends: a move that is legal
\* for its colour, a well-formed move that is never legal, a text that is
\* no token, and a token with a promotion letter
ForeignTexts(q) ==
    {IF q = "client" THEN Token("e", "7", "e", "5") ELSE Token("f", "2", "f", "3")}
        \cup {Token("f", "2", "f", "5"), <<"e", "7">>, <<"e", "7", "e", "5", "q">>}

ForeignData(q) ==
    (IF q = "host" THEN {[fen |-> Some(Fen(StandardBoard)), bytes |-> <<>>]} ELSE {})
        \cup {[fen |-> None, bytes |-> t] : t \in ForeignTexts(q)}

\* the squares the user of the program clicks in an open session
OpenClicks(q) ==
    IF q = "client"
    THEN {Sq(<<"f", "2">>), Sq(<<"f", "3">>), Sq(<<"g", "2">>), Sq(<<"g", "4">>)}
    ELSE {Sq(<<"e", "7">>), Sq(<<"e", "5">>), Sq(<<"d", "8">>), Sq(<<"h", "4">>)}

InitOpen ==
    /\ is960 = [p \in Peers |-> FALSE]
    /\ chessboard = [p \in Peers |-> StandardBoard]
    /\ pieceToMove = [p \in Peers |-> [piece |-> None, coordinates |-> None]]
    /\ flipped = [p \in Peers |-> p = "client"]
    /\ isMyMove = [p \in Peers |-> p = "host"]
    /\ lastMove = [p \in Peers |-> None]
    /\ check = [p \in Peers |-> None]
    /\ lastReceived = [p \in Peers |-> None]
    /\ prevReceived = [p \in Peers |-> None]
    /\ popup = [p \in Peers |-> None]
    /\ \E q \in Peers :
          uiPc = [p \in Peers |-> IF p = q THEN "foreign"
                                  ELSE IF p = "host" THEN "accept" ELSE "connect"]
    /\ uci = [p \in Peers |-> None]
    /\ rdPc = [p \in Peers |-> "off"]
    /\ connected = (uiPc["client"] = "foreign")
    /\ sock = [p \in Peers |-> NoBytes]
    /\ closed = [p \in Peers |-> FALSE]
    /\ clickable = OpenClicks(CHOOSE q \in Peers : uiPc[q] = "foreign")
    /\ applied = [p \in Peers |-> <<>>]
    /\ wire = <<>>

\* the foreign endpoint q sends data.  A send made while the reader is busy
\* only waits in the buffer, so sends are taken while the peer waits in
\* recv() with nothing buffered.
ForeignSend(q, data) ==
    /\ uiPc[q] = "foreign"
    /\ connected
    /\ sock[Other(q)] = NoBytes
    /\ rdPc[Other(q)] \in {"off", "recv"}
    /\ sock' = [sock EXCEPT ![Other(q)] = Send(@, data)]
    /\ UNCHANGED <<is960, chessboard, pieceToMove, flipped, isMyMove, lastMove,
                   check, lastReceived, prevReceived, popup, uiPc, uci, rdPc,
                   connected, closed, clickable, applied, wire>>

\* the foreign endpoint q reads what it was sent
ForeignRecv(q) ==
    /\ uiPc[q] = "foreign"
    /\ sock[q] # NoBytes
    /\ sock' = [sock EXCEPT ![q] = NoBytes]
    /\ UNCHANGED <<is960, chessboard, pieceToMove, flipped, isMyMove, lastMove,
                   check, lastReceived, prevReceived, popup, uiPc, uci, rdPc,
                   connected, closed, clickable, applied, wire>>

NextOpen ==
    \/ Next
    \/ \E q \in Peers : \E data \in ForeignData(q) : ForeignSend(q, data)
    \/ \E q \in Peers : ForeignRecv(q)

SpecOpen == InitOpen /\ [][NextOpen]_vars

(***************************************************************************)
(* Vocabulary of the properties.                                           *)
(***************************************************************************)
\* the peers that run the program
Programs == {p \in Peers : uiPc[p] # "foreign"}

\* p has left connectNetwork with a Board and a running event loop
Established(p) == uiPc[p] \in {"idle", "perform", "flag", "send", "finish"}

\* steps of the two applyMove paths: performMove returned True / did not
LocalSuccess(p) == uiPc[p] = "perform" /\ uiPc'[p] = "flag"
LocalFailure(p) == uiPc[p] = "perform" /\ uiPc'[p] = "idle"
LocalFlip(p) == uiPc[p] = "flag" /\ uiPc'[p] = "send"
RemoteSuccess(p) == rdPc[p] = "perform" /\ rdPc'[p] = "flag"
RemoteFailure(p) == rdPc[p] = "perform" /\ rdPc'[p] \in {"recv", "dead"}
RemoteFlip(p) == rdPc[p] = "flag" /\ rdPc'[p] = "recv"

IsPrefix(a, b) == Len(a) <= Len(b) /\ SubSeq(b, 1, Len(a)) = a

(***************************************************************************)
(* C1  Turn alternation.  At either peer, performMove returning True to    *)
(* mousePressEvent is followed by isMyMove = False, performMove returning  *)
(* True to _socketReader is followed by isMyMove = True, each taken from   *)
(* the opposite value, and a call that does not return True leaves         *)
(* isMyMove as it was.                                                     *)
(***************************************************************************)
C1_TurnAlternation ==
    [][\A p \in Programs :
        /\ LocalSuccess(p) => isMyMove[p] /\ isMyMove'[p]
        /\ LocalFlip(p) => ~isMyMove'[p]
        /\ uiPc[p] = "perform" /\ Perform(p, uci[p][1]).returned => LocalSuccess(p) \/ uiPc'[p] = "perform"
        /\ RemoteSuccess(p) => ~isMyMove[p] /\ ~isMyMove'[p]
        /\ RemoteFlip(p) => isMyMove'[p]
        /\ rdPc[p] = "perform" /\ Perform(p, lastReceived[p][1]).returned =>
              RemoteSuccess(p) \/ rdPc'[p] = "perform"
        /\ LocalFailure(p) \/ RemoteFailure(p) => isMyMove'[p] = isMyMove[p]]_vars

\* a peer has applied a local and a remote move, and in between it has
\* refused a move: it holds the turn again
C1_Witness ==
    \E p \in Programs :
        /\ Len(applied[p]) >= 2
        /\ isMyMove[p]
        /\ uiPc[p] = "idle" /\ rdPc[p] = "recv"
        /\ lastMove[p] # None /\ FromUciError(lastReceived[p]) = ""
        /\ lastMove[p][1] = FromUci(lastReceived[p])
        /\ MoveUci(lastMove[p][1]) # applied[p][Len(applied[p])]

(***************************************************************************)
(* C2  Turn-ownership exclusivity.  Host and client never both have        *)
(* isMyMove = True, and exactly one of them has it whenever no move is in  *)
(* transmission: a move is in transmission from the moment its sender's    *)
(* performMove has applied it until the receiver's applyMove (lines        *)
(* 102-105) has applied it and taken the turn.                             *)
(***************************************************************************)
InTransmission ==
    \/ Len(applied["host"]) # Len(applied["client"])
    \/ \E p \in Peers : rdPc[p] = "flag"

C2_TurnExclusive ==
    /\ ~(isMyMove["host"] /\ isMyMove["client"])
    /\ ~InTransmission => (isMyMove["host"] \/ isMyMove["client"])

\* both peers have applied the same two moves and are at rest
C2_Witness ==
    /\ Len(applied["host"]) = 2
    /\ applied["client"] = applied["host"]
    /\ \A p \in Peers : uiPc[p] = "idle" /\ rdPc[p] = "recv"
    /\ isMyMove["host"] /\ ~isMyMove["client"]

(***************************************************************************)
(* C10  Wire ordering.  The first send of a session is the host's FEN and  *)
(* no other send is a FEN; every later send is a move token; the senders   *)
(* of the tokens alternate, the host first; and the i-th token is the      *)
(* i-th move its sender's Board has applied, the move it has just made.    *)
(***************************************************************************)
IsFenMessage(m) == m.data.fen # None

C10_WireOrdering ==
    \A i \in 1..Len(wire) :
        IF i = 1
        THEN wire[i].sender = "host" /\ IsFenMessage(wire[i]) /\ wire[i].data.bytes = <<>>
        ELSE /\ ~IsFenMessage(wire[i])
             /\ FromUciError(Some(wire[i].data.bytes)) = ""
             /\ wire[i].sender = (IF i % 2 = 0 THEN "host" ELSE "client")
             /\ Len(applied[wire[i].sender]) >= i - 1
             /\ applied[wire[i].sender][i - 1] = wire[i].data.bytes

\* the FEN and three tokens have been sent
C10_Witness ==
    /\ Len(wire) = 4
    /\ wire[3].sender = "client"

(***************************************************************************)
(* C3  Board convergence.  Once both peers are established, the moves      *)
(* applied to one Board are a prefix of those applied to the other, and    *)
(* whenever no move is in transmission the two Boards are equal, which     *)
(* for chess.Board is equality of what fen() writes.  A token applied      *)
(* through the promotion fallback travels without its suffix.              *)
(***************************************************************************)
BoardsEqual == Fen(chessboard["host"]) = Fen(chessboard["client"])

C3_BoardConvergence ==
    (\A p \in Peers : Established(p)) =>
        /\ IsPrefix(applied["host"], applied["client"])
              \/ IsPrefix(applied["client"], applied["host"])
        /\ ~InTransmission => BoardsEqual

(***************************************************************************)
(* C9  Session bootstrap agreement.  When the client has built its Board   *)
(* from the FEN the host sent and no move has been played, fen() of the    *)
(* two Boards is the same text, for chess.Board() and for a Chess960       *)
(* start, whatever the client's own --c960 flag.                           *)
(***************************************************************************)
C9_BootstrapAgreement ==
    (Established("client") /\ \A p \in Peers : applied[p] = <<>>) => BoardsEqual

(***************************************************************************)
(* Tokens.  WellFormed is the wire format [a-h][1-8][a-h][1-8][qrbn]?.     *)
(* ClickTokens are the tokens two clicks of the session can build.         *)
(***************************************************************************)
WellFormed(t) ==
    /\ Len(t) \in {4, 5}
    /\ IsSquareName(SubSeq(t, 1, 2))
    /\ IsSquareName(SubSeq(t, 3, 4))
    /\ Len(t) = 5 => t[5] \in {"q", "r", "b", "n"}

ClickTokens == {SquareName(a) \o SquareName(b) : a, b \in clickable}

\* t is legal on b neither as given nor with a queen promotion appended
IllegalBoth(b, t) ==
    /\ WellFormed(t)
    /\ ~IsLegal(b, FromUci(Some(t)))
    /\ Len(t) = 4 => ~IsLegal(b, FromUci(Some(Append(t, "q"))))

NoSelection == [piece |-> None, coordinates |-> None]

(***************************************************************************)
(* C4  Out-of-turn guard, as the code has it: the callers enforce it.  A   *)
(* click while isMyMove = False starts nothing; a text received while      *)
(* isMyMove = True is dropped without a change of Board or isMyMove;       *)
(* performMove runs for the UI only with isMyMove = True and for the       *)
(* reader only with isMyMove = False; and nothing else changes a Board     *)
(* once it is built.                                                       *)
(***************************************************************************)
C4_CallersGuard ==
    [][\A p \in Programs :
        /\ uiPc[p] = "perform" /\ uiPc'[p] # "perform" => isMyMove[p]
        /\ rdPc[p] = "perform" /\ rdPc'[p] # "perform" => ~isMyMove[p]
        /\ uiPc[p] = "idle" /\ ~isMyMove[p] => uiPc'[p] = "idle"
        /\ rdPc[p] = "check" /\ isMyMove[p] /\ rdPc'[p] # "check" =>
              /\ rdPc'[p] = "recv"
              /\ chessboard'[p] = chessboard[p]
              /\ isMyMove'[p] = isMyMove[p]
        /\ chessboard'[p] # chessboard[p] =>
              \/ LocalSuccess(p) /\ isMyMove[p]
              \/ RemoteSuccess(p) /\ ~isMyMove[p]
              \/ uiPc[p] = "recv"]_vars

\* the peer holds the turn, has applied nothing, and its reader has
\* received a text and is back in recv(): the text was dropped
C4_Witness ==
    \E p \in Programs :
        /\ isMyMove[p]
        /\ applied[p] = <<>>
        /\ lastReceived[p] = Some(Token("e", "7", "e", "5"))
        /\ rdPc[p] = "recv"

(***************************************************************************)
(* C4 as claimed: besides the callers, performMove itself rejects a call   *)
(* made out of turn, whatever the token: a token the UI can build while    *)
(* isMyMove = False, a text the peer can send while isMyMove = True.       *)
(***************************************************************************)
C4_OperationGuard ==
    \A p \in Programs :
        Established(p) =>
            /\ uiPc[p] = "perform" => isMyMove[p]
            /\ rdPc[p] = "perform" => ~isMyMove[p]
            /\ ~isMyMove[p] =>
                  \A t \in ClickTokens : Perform(p, t).chessboard = chessboard[p]
            /\ isMyMove[p] =>
                  \A t \in ForeignTexts(Other(p)) : Perform(p, t).chessboard = chessboard[p]

(***************************************************************************)
(* C5  Illegal rejection.  When performMove is called, by either caller,   *)
(* with a well-formed token that is illegal as given and with a queen      *)
(* promotion appended, the call returns False (the reader goes back to     *)
(* recv(), the click handler goes on to clear the selection), the FEN of   *)
(* the Board and isMyMove are unchanged and nothing is sent.               *)
(***************************************************************************)
C5_IllegalRejection ==
    [][\A p \in Programs :
        /\ /\ uiPc[p] = "perform" /\ uiPc'[p] # "perform"
           /\ IllegalBoth(chessboard[p], uci[p][1])
           => /\ uiPc'[p] = "idle" /\ pieceToMove'[p] = NoSelection
              /\ Fen(chessboard'[p]) = Fen(chessboard[p])
              /\ isMyMove'[p] = isMyMove[p]
              /\ wire' = wire /\ sock' = sock
        /\ /\ rdPc[p] = "perform" /\ rdPc'[p] # "perform"
           /\ IllegalBoth(chessboard[p], lastReceived[p][1])
           => /\ rdPc'[p] = "recv"
              /\ Fen(chessboard'[p]) = Fen(chessboard[p])
              /\ isMyMove'[p] = isMyMove[p]]_vars

(***************************************************************************)
(* C8  Move-level errors are recovered by the reader.  When performMove    *)
(* is called on a received text that is no token, or on a token that is    *)
(* illegal, Board and isMyMove are unchanged and the reader goes back to   *)
(* recv(), where a later token is received.                                *)
(***************************************************************************)
Malformed(t) == FromUciError(Some(t)) # ""

C8_ReaderRecovers ==
    [][\A p \in Programs :
        /\ rdPc[p] = "perform" /\ rdPc'[p] # "perform"
        /\ Malformed(lastReceived[p][1]) \/ IllegalBoth(chessboard[p], lastReceived[p][1])
        => /\ rdPc'[p] = "recv"
           /\ chessboard'[p] = chessboard[p]
           /\ isMyMove'[p] = isMyMove[p]]_vars

(***************************************************************************)
(* C6  Promotion fallback.  On every Board a peer reaches, for every       *)
(* 4-character token t two clicks can build: when t is illegal as given    *)
(* and legal with 'q' appended, performMove(t) returns True and leaves the *)
(* Board and lastMove that performMove(t + 'q') leaves, with a queen of    *)
(* the mover's color on the destination square; when t is legal as given,  *)
(* performMove(t) applies the move t decodes to, without a promotion.      *)
(***************************************************************************)
C6_PromotionFallback ==
    \A p \in Peers :
        Established(p) =>
            \A t \in ClickTokens :
                LET b == chessboard[p]
                    tq == Append(t, "q")
                    given == FromUci(Some(t))
                IN /\ ~IsLegal(b, given) /\ IsLegal(b, FromUci(Some(tq))) =>
                        \E r \in {Perform(p, t)} :
                            /\ r.raised = "" /\ r.returned
                            /\ r.chessboard = Perform(p, tq).chessboard
                            /\ r.lastMove = Perform(p, tq).lastMove
                            /\ r.lastMove = Some(Move(given.from_square, given.to_square, Some("q")))
                            /\ r.chessboard.pieces[given.to_square] = Symbol("q", b.turn)
                            /\ IsPawn(b.pieces[given.from_square])
                            /\ square_rank(given.to_square) = LastRank(b.turn)
                   /\ IsLegal(b, given) =>
                        \E r \in {Perform(p, t)} :
                            /\ r.raised = "" /\ r.returned
                            /\ r.chessboard = Push(b, given)
                            /\ r.lastMove = Some(given)

\* both peers have applied the token h7g8, which has no suffix, as a
\* queen promotion: the host on a click, the client on receipt
C6_Witness ==
    \A p \in Peers :
        /\ applied[p] # <<>>
        /\ applied[p][Len(applied[p])] = Token("h", "7", "g", "8")
        /\ lastMove[p] = Some(Move(Sq(<<"h", "7">>), Sq(<<"g", "8">>), Some("q")))
        /\ chessboard[p].pieces[Sq(<<"g", "8">>)] = "Q"

(***************************************************************************)
(* C7  Checkmate, as the code has it.  Whenever the Board of a peer is in  *)
(* checkmate, the peer shows the label naming as winner the color that     *)
(* just moved; isMyMove is still assigned after the mating move as after   *)
(* any other, so that at rest the mated peer holds the turn; and no later  *)
(* step changes the Board.                                                 *)
(***************************************************************************)
Mated(p) == Established(p) /\ IsCheckmate(chessboard[p])

WinnerText(b) == "Checkmate! " \o ColorName(~b.turn) \o " wins!"

C7_CheckmateFinal ==
    /\ [](\A p \in Peers :
            Mated(p) =>
                /\ popup[p] = Some(WinnerText(chessboard[p]))
                /\ uiPc[p] = "idle" /\ rdPc[p] = "recv" =>
                      isMyMove[p] = (chessboard[p].turn = (p = "host")))
    /\ [][\A p \in Peers :
            Mated(p) =>
                /\ chessboard'[p] = chessboard[p]
                /\ LocalFlip(p) => ~isMyMove'[p]
                /\ RemoteFlip(p) => isMyMove'[p]]_vars

\* Fool's Mate has been played: both peers show that Black wins and the
\* host, who is mated, holds the turn
C7_Witness ==
    /\ \A p \in Peers :
          /\ Mated(p)
          /\ popup[p] = Some("Checkmate! Black wins!")
          /\ uiPc[p] = "idle" /\ rdPc[p] = "recv"
    /\ isMyMove["host"] /\ ~isMyMove["client"]

(***************************************************************************)
(* C7 as claimed: the mating move ends the game instead of changing the    *)
(* turn.  From a Board in checkmate on, isMyMove keeps the value it had    *)
(* when the mating move was applied, the label names the color that just   *)
(* moved, and the Board does not change.                                   *)
(***************************************************************************)
C7_CheckmateTerminal ==
    [][\A p \in Peers :
        Mated(p) =>
            /\ popup[p] = Some(WinnerText(chessboard[p]))
            /\ chessboard'[p] = chessboard[p]
            /\ isMyMove'[p] = isMyMove[p]]_vars

(***************************************************************************)
(* C11  No concurrent Board mutation inside one process.  A thread is      *)
(* inside performMove from the call (the thread is at "perform") to the    *)
(* return (the step that leaves "perform").  In no state are the UI        *)
(* thread and the reader thread of one process both inside performMove,    *)
(* whatever the peer sends and however the two threads interleave.         *)
(***************************************************************************)
UiInside(p) == uiPc[p] = "perform"
RdInside(p) == rdPc[p] = "perform"

C11_NoConcurrentMutation ==
    \A p \in Programs : ~(UiInside(p) /\ RdInside(p))

\* the reader is inside performMove while the UI thread is still in the
\* click handler that sent the previous move
C11_Witness ==
    \E p \in Programs : RdInside(p) /\ uiPc[p] = "finish"

(***************************************************************************)
(* C12  Highlight on illegal rejection.  When performMove rejects a token  *)
(* that is illegal as given and with 'q' appended, lastMove becomes the    *)
(* decode of the last token received from the peer before the attempt:     *)
(* for a local attempt the text of the last recv(), for a remote attempt   *)
(* the text of the recv() before the one that returned the rejected        *)
(* token.  Stated for attempts before which such a token was received.     *)
(***************************************************************************)
Decodable(received) == received # None /\ FromUciError(received) = ""

C12_HighlightPrevious ==
    [][\A p \in Programs :
        /\ /\ uiPc[p] = "perform" /\ uiPc'[p] # "perform"
           /\ IllegalBoth(chessboard[p], uci[p][1])
           /\ Decodable(lastReceived[p])
           => lastMove'[p] = Some(FromUci(lastReceived[p]))
        /\ /\ rdPc[p] = "perform" /\ rdPc'[p] # "perform"
           /\ IllegalBoth(chessboard[p], lastReceived[p][1])
           /\ Decodable(prevReceived[p])
           => lastMove'[p] = Some(FromUci(prevReceived[p]))]_vars

(***************************************************************************)
(* C13  Release and send, as the code orders them.  After performMove      *)
(* returns True to mousePressEvent, isMyMove is set to False (line 190)    *)
(* with nothing sent, and only then is the token sent (line 191): while    *)
(* the handler is between the two lines the peer has given up the turn,    *)
(* the wire holds the FEN and the tokens of the earlier moves only, and    *)
(* the handler's next step appends the token of this move to the wire.     *)
(***************************************************************************)
TokenMessage(p, token) == [sender |-> p, data |-> [fen |-> None, bytes |-> token]]

C13_ReleaseBeforeSend ==
    /\ [](\A p \in Peers :
            uiPc[p] = "send" => ~isMyMove[p] /\ Len(wire) = Len(applied[p]))
    /\ [][\A p \in Peers :
            /\ LocalFlip(p) => isMyMove[p] /\ ~isMyMove'[p] /\ wire' = wire
            /\ uiPc[p] = "send" /\ uiPc'[p] # "send" =>
                  /\ uiPc'[p] = "finish"
                  /\ wire' = Append(wire, TokenMessage(p, uci[p][1]))
                  /\ isMyMove'[p] = isMyMove[p]]_vars

\* the client has applied the host's move and its own answer, has set
\* isMyMove to False and has not yet sent the answer
C13_Witness ==
    /\ uiPc["client"] = "send"
    /\ ~isMyMove["client"]
    /\ Len(applied["client"]) = 2
    /\ Len(wire) = 2

(***************************************************************************)
(* C13 as claimed: release after send.  In no state has a peer given up    *)
(* the turn (isMyMove = False) while a move it applied locally has not     *)
(* been sent.  The host's local moves are the odd moves of the game, the   *)
(* client's the even ones; move i is the message i + 1 of the wire.        *)
(***************************************************************************)
IsLocalMove(p, i) == (i % 2 = 1) = (p = "host")

C13_ReleaseAfterSend ==
    \A p \in Peers :
        Established(p) /\ ~isMyMove[p] =>
            \A i \in 1..Len(applied[p]) :
                IsLocalMove(p, i) => Len(wire) >= i + 1 /\ wire[i + 1].sender = p

(***************************************************************************)
(* C14  Check-square consistency.  In every state the check field of an    *)
(* established peer is the square of the king of the side to move when     *)
(* that side is in check, and None otherwise.  Every step in which         *)
(* performMove returns True pushes one move on the Board, the token as     *)
(* given when that is legal and the token as a queen promotion otherwise,  *)
(* and leaves lastMove equal to that move.                                 *)
(***************************************************************************)
CheckSquare(b) == IF IsCheck(b) THEN KingOf(b.pieces, b.turn) ELSE None

\* the move performMove pushes for a token: as given, or promoting to a queen
Pushed(b, token) ==
    IF IsLegal(b, FromUci(Some(token)))
    THEN FromUci(Some(token))
    ELSE FromUci(Some(Append(token, "q")))

SuccessConsistent(p, token) ==
    /\ IsLegal(chessboard[p], Pushed(chessboard[p], token))
    /\ chessboard'[p] = Push(chessboard[p], Pushed(chessboard[p], token))
    /\ lastMove'[p] = Some(Pushed(chessboard[p], token))
    /\ check'[p] = CheckSquare(chessboard'[p])

C14_CheckSquareConsistency ==
    /\ [](\A p \in Peers : Established(p) => check[p] = CheckSquare(chessboard[p]))
    /\ [][\A p \in Peers :
            /\ LocalSuccess(p) => SuccessConsistent(p, uci[p][1])
            /\ RemoteSuccess(p) => SuccessConsistent(p, lastReceived[p][1])]_vars

\* the host's reader has just applied d8h4, which gives check to the
\* host's king: check holds the king's square
C14_CheckWitness ==
    /\ rdPc["host"] = "flag"
    /\ lastMove["host"] = Some(FromUci(Some(Token("d", "8", "h", "4"))))
    /\ check["host"] = CheckSquare(chessboard["host"])
    /\ check["host"] # None

(***************************************************************************)
(* C15  Rejecting an illegal local move never faults.  In every state in   *)
(* which the click handler of a peer that holds the turn calls             *)
(* performMove with a token that is illegal as given and with 'q'          *)
(* appended, the host's first attempt with lastReceived = None included,   *)
(* the call raises nothing and returns False, and the handler leaves       *)
(* pieceToMove = [None, None].                                             *)
(***************************************************************************)
C15_LocalRejectionNeverFaults ==
    [][\A p \in Peers :
        /\ uiPc[p] = "perform" /\ uiPc'[p] # "perform"
        /\ isMyMove[p]
        /\ IllegalBoth(chessboard[p], uci[p][1])
        => /\ Perform(p, uci[p][1]).raised = ""
           /\ ~Perform(p, uci[p][1]).returned
           /\ pieceToMove'[p] = NoSelection]_vars

(***************************************************************************)
(* C16  Turn ownership and the side to move, as the code has it.  The      *)
(* host plays White and the client Black.  A peer with isMyMove = True     *)
(* has its own color to move on its Board, except while its click handler  *)
(* is between the return of performMove (line 189) and isMyMove = False    *)
(* (line 190), where the move is already pushed.  Every move a peer        *)
(* applies as a local move is a move of its own color, and every move it   *)
(* applies as a remote move is a move of the other color.                  *)
(***************************************************************************)
ColorOf(p) == IF p = "host" THEN WHITE ELSE BLACK

C16_TurnMatchesSideAtRest ==
    /\ [](\A p \in Peers :
            isMyMove[p] /\ uiPc[p] # "flag" => chessboard[p].turn = ColorOf(p))
    /\ [][\A p \in Peers :
            /\ LocalSuccess(p) =>
                  chessboard[p].turn = ColorOf(p) /\ chessboard'[p].turn # ColorOf(p)
            /\ RemoteSuccess(p) =>
                  chessboard[p].turn # ColorOf(p) /\ chessboard'[p].turn = ColorOf(p)]_vars

\* the client holds the turn after the host's second move, Black to move
C16_Witness ==
    /\ isMyMove["client"]
    /\ uiPc["client"] = "idle" /\ rdPc["client"] = "recv"
    /\ Len(applied["client"]) = 3
    /\ chessboard["client"].turn = BLACK

(***************************************************************************)
(* C16 as claimed: in every state, a peer with isMyMove = True has its     *)
(* own color to move on its Board.                                         *)
(***************************************************************************)
C16_TurnMatchesSide ==
    \A p \in Peers : isMyMove[p] => chessboard[p].turn = ColorOf(p)

(***************************************************************************)
(* The closed session with scheduling: connectNetwork runs to its end, a   *)
(* click handler that has called performMove runs to its end, and the      *)
(* reader thread is scheduled whenever it can take a step.  The users are  *)
(* not obliged to click.                                                   *)
(***************************************************************************)
\* p's UI thread can take a step without a click: it is in connectNetwork
\* and not blocked, or inside a click handler that has called performMove
UiReady(p) ==
    \/ uiPc[p] \in {"perform", "flag", "send", "finish"}
    \/ uiPc[p] = "accept" /\ connected
    \/ uiPc[p] = "connect"
    \/ uiPc[p] = "recv" /\ sock[p] # NoBytes

\* p's reader thread can take a step: it is not blocked in recv()
RdReady(p) ==
    \/ rdPc[p] \in {"check", "perform", "flag"}
    \/ rdPc[p] = "recv" /\ (sock[p] # NoBytes \/ closed[Other(p)])

\* the thread takes its step: every step of a thread moves its position
UiAdvance(p) ==
    /\ UiReady(p)
    /\ \E pc \in {"recv", "crashed", "idle", "flag", "send", "finish"} :
          pc # uiPc[p] /\ uiPc' = [uiPc EXCEPT ![p] = pc]

RdAdvance(p) ==
    /\ RdReady(p)
    /\ \E pc \in {"recv", "check", "perform", "flag", "dead"} :
          pc # rdPc[p] /\ rdPc' = [rdPc EXCEPT ![p] = pc]

Fairness == \A p \in Peers : WF_uiPc(UiAdvance(p)) /\ WF_rdPc(RdAdvance(p))

SpecFair == Init /\ [][Next]_vars /\ Fairness

(***************************************************************************)
(* C17  Hand-over liveness.  Every move that a peer has applied locally    *)
(* and sent is eventually applied to the other peer's Board, after which   *)
(* that peer holds the turn (until it has moved in its turn); and the      *)
(* session never comes to rest, outside checkmate, in a state in which     *)
(* no peer can move: every thread waiting, nothing to receive, and no      *)
(* peer with an event loop and isMyMove = True.                            *)
(***************************************************************************)
\* p has applied the n-th move and has held the turn after it
TakenOver(p, n) ==
    /\ Len(applied[p]) >= n
    /\ isMyMove[p] \/ Len(applied[p]) > n

\* the last token sent has not yet been taken over by its receiver; the
\* tokens before it have, since the receiver of each sent the next
Pending ==
    /\ Len(wire) > 1
    /\ ~TakenOver(Other(wire[Len(wire)].sender), Len(wire) - 1)

CanMove(p) == uiPc[p] = "idle" /\ isMyMove[p]

AtRest ==
    \A p \in Peers :
        /\ uiPc[p] \in {"idle", "crashed"}
        /\ rdPc[p] \in {"off", "recv", "dead"}
        /\ rdPc[p] = "recv" => sock[p] = NoBytes /\ ~closed[Other(p)]

Stuck == AtRest /\ \A p \in Peers : ~CanMove(p)

C17_HandOverLiveness ==
    /\ Pending ~> ~Pending
    /\ [](Stuck => \E p \in Peers : Mated(p))

(***************************************************************************)
(* C18  Bootstrap read isolation.  The client's recv() in connectNetwork   *)
(* (line 122) returns exactly the FEN the host sent, with no byte of the   *)
(* host's first token; and the first recv() of the client's reader (line   *)
(* 100) returns exactly the host's first token.                            *)
(***************************************************************************)
C18_BootstrapReadIsolation ==
    [][/\ uiPc["client"] = "recv" /\ uiPc'["client"] # "recv" =>
             /\ sock["client"] = wire[1].data
             /\ uiPc'["client"] = "idle"
       /\ /\ rdPc["client"] = "recv" /\ rdPc'["client"] # "recv"
          /\ lastReceived["client"] = None
          => /\ Len(wire) >= 2
             /\ lastReceived'["client"] = Some(wire[2].data.bytes)]_vars

(***************************************************************************)
(* C19  Illegal 5-character tokens are rejected cleanly.  When performMove *)
(* is called with a well-formed token that carries a promotion letter and  *)
(* is illegal on the Board, the call raises nothing and returns False,     *)
(* and the Board and isMyMove are unchanged; the reader goes back to       *)
(* recv().  (The click handler builds 4-character tokens only.)            *)
(***************************************************************************)
IllegalWithLetter(b, t) ==
    WellFormed(t) /\ Len(t) = 5 /\ ~IsLegal(b, FromUci(Some(t)))

C19_FiveCharacterRejection ==
    [][\A p \in Programs :
        /\ /\ rdPc[p] = "perform" /\ rdPc'[p] # "perform"
           /\ IllegalWithLetter(chessboard[p], lastReceived[p][1])
           => /\ Perform(p, lastReceived[p][1]).raised = ""
              /\ ~Perform(p, lastReceived[p][1]).returned
              /\ rdPc'[p] = "recv"
              /\ chessboard'[p] = chessboard[p]
              /\ isMyMove'[p] = isMyMove[p]
        /\ /\ uiPc[p] = "perform" /\ uiPc'[p] # "perform"
           /\ IllegalWithLetter(chessboard[p], uci[p][1])
           => /\ Perform(p, uci[p][1]).raised = ""
              /\ ~Perform(p, uci[p][1]).returned
              /\ chessboard'[p] = chessboard[p]
              /\ isMyMove'[p] = isMyMove[p]]_vars
=============================================================================
